---- MODULE Spec2Model ----
(***************************************************************************)
(* Model of the NEAR contract YetifyStrategyStorage                        *)
(* (yetify-contracts/strategy-storage/src/lib.rs).                         *)
(*                                                                         *)
(* The contract state is the pair (strategies, strategy_count).  Every     *)
(* public method is one action; a call-changing method runs as one         *)
(* transaction, so it is atomic.  The caller (predecessor_account_id) and  *)
(* the block timestamp are inputs supplied by the host.                    *)
(*                                                                         *)
(* Option<T> is modelled as a sequence of length 0 (None) or 1 (Some).     *)
(* The history variables `last` and `pre` record the call that produced    *)
(* the current state and the contract state that call started from.        *)
(***************************************************************************)
EXTENDS Integers, Sequences, FiniteSets, TLC

VARIABLES strategies, strategy_count, now, last, pre

vars == <<strategies, strategy_count, now, last, pre>>

(***************************************************************************)
(* Bounds of the model.                                                    *)
(***************************************************************************)
\* creating calls are admitted while strategy_count < MaxCount
MaxCount == 2

\* u64::MAX, the largest value of strategy_count (lib.rs 56).  TLC's integers
\* are 32 bits wide, so the largest of them stands for 2^64 - 1; the bounds
\* keep every other number of the model far below it.
U64_MAX == 2147483647

(***************************************************************************)
(* Input universes.                                                        *)
(***************************************************************************)
Ids == {"", "s1", "s2"}
Goals == {"grow savings"}
Accounts == {"alice.testnet", "bob.testnet"}
\* block timestamps (ms) at which calls run; the client-supplied created_at
\* values of the JSON inputs (0 and 7) are none of them
BlockTimes == {1, 2}
LaterTimes(t) == {x \in BlockTimes : x >= t}
\* the JSON "creator" member may hold any string; AccountId accepts some
JsonCreators == Accounts \cup {"Not An Account"}
NoCaller == "-"

None == <<>>
Some(x) == <<x>>

(***************************************************************************)
(* StrategyStep and StrategyData (lib.rs 4-30).                            *)
(***************************************************************************)
StrategyStep(action, protocol, asset, expected_apy, amount) ==
    [action |-> action, protocol |-> protocol, asset |-> asset,
     expected_apy |-> expected_apy, amount |-> amount]

StrategyData(id, goal, chains, protocols, steps, risk_level, estimated_apy, estimated_tvl, confidence, reasoning, warnings, creator, created_at) ==
    [id |-> id, goal |-> goal, chains |-> chains, protocols |-> protocols,
     steps |-> steps, risk_level |-> risk_level, estimated_apy |-> estimated_apy,
     estimated_tvl |-> estimated_tvl, confidence |-> confidence,
     reasoning |-> reasoning, warnings |-> warnings,
     creator |-> creator, created_at |-> created_at]

\* the fields of StrategyData that a JSON document must carry: every field
\* whose type is not Option<_> (the derive sets no serde default)
RequiredFields == {"id", "goal", "chains", "protocols", "steps", "risk_level",
                   "creator", "created_at"}
OptionalFields == {"estimated_apy", "estimated_tvl", "confidence", "reasoning",
                   "warnings"}
AllFields == RequiredFields \cup OptionalFields

\* AccountId validation performed when a JSON string is decoded as AccountId
IsValidAccountId(s) == s \in Accounts

(***************************************************************************)
(* JSON documents handed to store_complete_strategy / update_strategy.     *)
(* A document is either not valid JSON (syntax_ok = FALSE) or an object;   *)
(* each member is absent (<<>>) or present (<<value>>).                    *)
(***************************************************************************)
JsonDoc(syntax_ok, id, goal, chains, protocols, steps, risk_level, estimated_apy, estimated_tvl, confidence, reasoning, warnings, creator, created_at) ==
    [syntax_ok |-> syntax_ok, id |-> id, goal |-> goal, chains |-> chains,
     protocols |-> protocols, steps |-> steps, risk_level |-> risk_level,
     estimated_apy |-> estimated_apy, estimated_tvl |-> estimated_tvl,
     confidence |-> confidence, reasoning |-> reasoning, warnings |-> warnings,
     creator |-> creator, created_at |-> created_at]

NoJson == JsonDoc(FALSE, <<>>, <<>>, <<>>, <<>>, <<>>, <<>>, <<>>, <<>>, <<>>,
                  <<>>, <<>>, <<>>, <<>>)

Step1 == StrategyStep("deposit", "ref-finance", "NEAR", Some("12.5"), Some("100"))

\* an object carrying every member, with a forged creator and created_at
FullDoc(id) ==
    JsonDoc(TRUE, <<id>>, <<"maximize yield">>, << <<"near">> >>,
            << <<"ref-finance">> >>, << <<Step1>> >>, <<"high">>, <<"12.5">>,
            <<"1000000">>, <<"0.9">>, <<"stable pools">>, << <<"volatile">> >>,
            <<"bob.testnet">>, <<7>>)

\* an object carrying the required members only
SparseDoc(id) ==
    JsonDoc(TRUE, <<id>>, <<"hedge">>, << <<>> >>, << <<>> >>, << <<>> >>,
            <<"low">>, <<>>, <<>>, <<>>, <<>>, <<>>, <<"alice.testnet">>, <<0>>)

JsonInputs ==
    {FullDoc(id) : id \in Ids} \cup {SparseDoc(id) : id \in Ids}
    \cup {NoJson,
          [SparseDoc("s1") EXCEPT !.goal = <<>>],
          [FullDoc("s1") EXCEPT !.creator = <<"Not An Account">>]}

(***************************************************************************)
(* serde_json::from_str::<StrategyData> (lib.rs 67, 137) for the derive    *)
(* of lib.rs 14-30: Ok(data) or Err(diagnostic).                           *)
(***************************************************************************)
ParseOk(data) == [ok |-> TRUE, data |-> Some(data), err |-> ""]
ParseErr(err) == [ok |-> FALSE, data |-> None, err |-> err]

FieldOrder == <<"id", "goal", "chains", "protocols", "steps", "risk_level",
                "creator", "created_at">>

MissingRequired(json) == {i \in 1..Len(FieldOrder) : json[FieldOrder[i]] = <<>>}

FirstMissing(json) ==
    FieldOrder[CHOOSE i \in MissingRequired(json) :
                  \A j \in MissingRequired(json) : i <= j]

from_str(json) ==
    IF ~json.syntax_ok THEN ParseErr("expected value at line 1 column 1")
    ELSE IF json.creator # <<>> /\ ~IsValidAccountId(json.creator[1])
         THEN ParseErr("invalid value: the Account ID contains an invalid character")
    ELSE IF json.created_at # <<>> /\ ~(0 <= json.created_at[1] /\ json.created_at[1] <= U64_MAX)
         THEN ParseErr("invalid value: expected u64")
    ELSE IF MissingRequired(json) # {}
         THEN ParseErr("missing field " \o FirstMissing(json))
    ELSE ParseOk(StrategyData(json.id[1], json.goal[1], json.chains[1],
                              json.protocols[1], json.steps[1], json.risk_level[1],
                              json.estimated_apy, json.estimated_tvl,
                              json.confidence, json.reasoning, json.warnings,
                              json.creator[1], json.created_at[1]))

(***************************************************************************)
(* The mapping `strategies` (lib.rs 55) and its operations.                *)
(***************************************************************************)
EmptyMap == [k \in {} |-> NoJson]

contains_key(map, k) == k \in DOMAIN map

get(map, k) == IF k \in DOMAIN map THEN Some(map[k]) ELSE None

insert(map, k, v) == [x \in (DOMAIN map) \cup {k} |-> IF x = k THEN v ELSE map[x]]

\* mutant: the entry is left in the mapping
remove_Nothing(map, k) == map

remove(map, k) == [x \in (DOMAIN map) \ {k} |-> map[x]]

\* the orders in which values() may yield the entries of the mapping
KeyOrders(map) ==
    {s \in [1..Cardinality(DOMAIN map) -> DOMAIN map] :
        \A i, j \in DOMAIN s : i # j => s[i] # s[j]}

values(map) == {[i \in DOMAIN s |-> map[s[i]]] : s \in KeyOrders(map)}

is_empty(s) == s = ""

(***************************************************************************)
(* u64 += 1 / -= 1.  Out of range, the build either traps (overflow        *)
(* checks on: the call panics and the host discards its writes) or wraps.  *)
(***************************************************************************)
Arith(panic, value) == [panic |-> panic, value |-> value]

\* mutant: the increment is forgotten
add_assign_1_Forgotten(c) == {Arith(FALSE, c)}

add_assign_1(c) ==
    IF c < U64_MAX THEN {Arith(FALSE, c + 1)}
    ELSE {Arith(TRUE, c), Arith(FALSE, 0)}

\* mutant: the decrement is forgotten
sub_assign_1_Forgotten(c) == {Arith(FALSE, c)}

sub_assign_1(c) ==
    IF c >= 1 THEN {Arith(FALSE, c - 1)}
    ELSE {Arith(TRUE, c), Arith(FALSE, U64_MAX)}

(***************************************************************************)
(* Return values: a format string and its arguments.                       *)
(***************************************************************************)
Ret(fmt, sargs, nargs) == [fmt |-> fmt, sargs |-> sargs, nargs |-> nargs]

NoRet == Ret("", <<>>, <<>>)
Panicked == Ret("panicked: arithmetic overflow", <<>>, <<>>)

ParseErrorFmt == "Error: Failed to parse strategy JSON - {}"
IdRequiredFmt == "Error: Strategy ID is required"
NotFoundFmt == "Error: Strategy '{}' not found"
UpdateForbiddenFmt == "Error: Only the strategy creator can update this strategy"
DeleteForbiddenFmt == "Error: Only the strategy creator can delete this strategy"
CompleteStoredFmt == "Complete strategy '{}' stored successfully! Total strategies: {}"
StoredFmt == "Strategy '{}' stored successfully!"
UpdatedFmt == "Strategy '{}' updated successfully!"
DeletedFmt == "Strategy '{}' deleted successfully! Total strategies: {}"
InfoFmt == "Yetify Strategy Storage - Total strategies: {}"

ErrorFmts == {ParseErrorFmt, IdRequiredFmt, NotFoundFmt, UpdateForbiddenFmt,
              DeleteForbiddenFmt}

\* the contract state as a value, and the outcome of a call on it
Self(map, count) == [strategies |-> map, strategy_count |-> count]
Outcome(self, ret) == [self |-> self, ret |-> ret]

(***************************************************************************)
(* The methods of YetifyStrategyStorage, each as the set of outcomes of    *)
(* one call on the contract state `self`.                                  *)
(***************************************************************************)

\* mutant: the client-supplied created_at is kept
SetMetadata_CreatorOnly(strategy_data, creator, timestamp) ==
    [strategy_data EXCEPT !.creator = creator]

\* lib.rs 82-83
SetMetadata(strategy_data, creator, timestamp) ==
    [strategy_data EXCEPT !.creator = creator, !.created_at = timestamp]

\* lib.rs 86-88, 114-115: insert, then count += 1.  Each result is the
\* contract state left, or a panic (nothing is written)
InsertAndCount(self, strategy_id, strategy_data) ==
    {[panic |-> a.panic,
      self |-> IF a.panic THEN self
               ELSE Self(insert(self.strategies, strategy_id, strategy_data), a.value)] :
     a \in add_assign_1(self.strategy_count)}

store_complete_strategy(self, creator, timestamp, strategy_json) ==
    LET parsed == from_str(strategy_json) IN
    IF ~parsed.ok
      THEN {Outcome(self, Ret(ParseErrorFmt, <<parsed.err>>, <<>>))}
    ELSE LET data == parsed.data[1] IN
    IF is_empty(data.id)
      THEN {Outcome(self, Ret(IdRequiredFmt, <<>>, <<>>))}
    ELSE LET strategy_data == SetMetadata(data, creator, timestamp)
             strategy_id == strategy_data.id
         IN {IF r.panic THEN Outcome(r.self, Panicked)
             ELSE Outcome(r.self, Ret(CompleteStoredFmt, <<strategy_id>>,
                                      <<r.self.strategy_count>>)) :
             r \in InsertAndCount(self, strategy_id, strategy_data)}

\* mutant: the creator is left at the Default of lib.rs 46
NewStrategyData_DefaultCreator(id, goal, creator, timestamp) ==
    StrategyData(id, goal, <<>>, <<>>, <<>>, "medium", None, None, None, None,
                 None, "default.testnet", timestamp)

\* mutant: the record's id is left at the Default of lib.rs 35
NewStrategyData_DefaultId(id, goal, creator, timestamp) ==
    StrategyData("", goal, <<>>, <<>>, <<>>, "medium", None, None, None, None,
                 None, creator, timestamp)

\* lib.rs 98-112
NewStrategyData(id, goal, creator, timestamp) ==
    StrategyData(id, goal, <<>>, <<>>, <<>>, "medium", None, None, None, None,
                 None, creator, timestamp)

\* mutant: a stored id owned by another account is refused
store_strategy_OwnerChecked(self, creator, timestamp, id, goal) ==
    LET strategy_data == NewStrategyData(id, goal, creator, timestamp)
        found == get(self.strategies, id)
    IN IF found # None /\ found[1].creator # creator
         THEN {Outcome(self, Ret("Error: Strategy '{}' already exists", <<id>>, <<>>))}
         ELSE {IF r.panic THEN Outcome(r.self, Panicked)
               ELSE Outcome(r.self, Ret(StoredFmt, <<id>>, <<>>)) :
               r \in InsertAndCount(self, id, strategy_data)}

store_strategy(self, creator, timestamp, id, goal) ==
    LET strategy_data == NewStrategyData(id, goal, creator, timestamp)
    IN {IF r.panic THEN Outcome(r.self, Panicked)
        ELSE Outcome(r.self, Ret(StoredFmt, <<id>>, <<>>)) :
        r \in InsertAndCount(self, id, strategy_data)}

get_strategy(self, id) == get(self.strategies, id)

total_strategies(self) == self.strategy_count

get_contract_info(self) == Ret(InfoFmt, <<>>, <<self.strategy_count>>)

\* mutant: the ownership check of update_strategy is dropped
UpdateOwnershipOk_Anyone(existing_strategy, caller) == TRUE

\* lib.rs 154: only the creator can update
UpdateOwnershipOk(existing_strategy, caller) == existing_strategy.creator = caller

\* mutant: created_at is taken from the payload
PreserveMetadata_CreatorOnly(strategy_data, existing_strategy) ==
    [strategy_data EXCEPT !.creator = existing_strategy.creator]

\* mutant: an optional field the payload omits is merged from the stored record
PreserveMetadata_MergeOptional(strategy_data, existing_strategy) ==
    [strategy_data EXCEPT
        !.creator = existing_strategy.creator,
        !.created_at = existing_strategy.created_at,
        !.estimated_apy = IF @ = None THEN existing_strategy.estimated_apy ELSE @,
        !.warnings = IF @ = None THEN existing_strategy.warnings ELSE @]

\* lib.rs 159-160
PreserveMetadata(strategy_data, existing_strategy) ==
    [strategy_data EXCEPT !.creator = existing_strategy.creator,
                          !.created_at = existing_strategy.created_at]

update_strategy(self, caller, strategy_json) ==
    LET parsed == from_str(strategy_json) IN
    IF ~parsed.ok
      THEN {Outcome(self, Ret(ParseErrorFmt, <<parsed.err>>, <<>>))}
    ELSE LET data == parsed.data[1]
             found == get(self.strategies, data.id) IN
    IF found = None
      THEN {Outcome(self, Ret(NotFoundFmt, <<data.id>>, <<>>))}
    ELSE LET existing_strategy == found[1] IN
    IF ~UpdateOwnershipOk(existing_strategy, caller)
      THEN {Outcome(self, Ret(UpdateForbiddenFmt, <<>>, <<>>))}
    ELSE LET strategy_data == PreserveMetadata(data, existing_strategy)
             strategy_id == strategy_data.id
         IN {Outcome(Self(insert(self.strategies, strategy_id, strategy_data),
                          self.strategy_count),
                     Ret(UpdatedFmt, <<strategy_id>>, <<>>))}

\* mutant: the ownership check of delete_strategy is dropped
DeleteOwnershipOk_Anyone(existing_strategy, caller) == TRUE

\* lib.rs 182: only the creator can delete
DeleteOwnershipOk(existing_strategy, caller) == existing_strategy.creator = caller

\* mutant: ownership is tested before existence, an absent id is "not owned"
delete_strategy_OwnerFirst(self, caller, id) ==
    LET found == get(self.strategies, id) IN
    IF found = None \/ found[1].creator # caller
      THEN {Outcome(self, Ret(DeleteForbiddenFmt, <<>>, <<>>))}
    ELSE {IF a.panic
            THEN Outcome(self, Panicked)
            ELSE Outcome(Self(remove(self.strategies, id), a.value),
                         Ret(DeletedFmt, <<id>>, <<a.value>>)) :
          a \in sub_assign_1(self.strategy_count)}

\* mutant: the entry is removed before the ownership check
delete_strategy_RemoveFirst(self, caller, id) ==
    LET found == get(self.strategies, id) IN
    IF found = None
      THEN {Outcome(self, Ret(NotFoundFmt, <<id>>, <<>>))}
    ELSE LET existing_strategy == found[1]
             removed == remove(self.strategies, id) IN
    IF existing_strategy.creator # caller
      THEN {Outcome(Self(removed, self.strategy_count),
                    Ret(DeleteForbiddenFmt, <<>>, <<>>))}
    ELSE {IF a.panic
            THEN Outcome(self, Panicked)
            ELSE Outcome(Self(removed, a.value),
                         Ret(DeletedFmt, <<id>>, <<a.value>>)) :
          a \in sub_assign_1(self.strategy_count)}

delete_strategy(self, caller, id) ==
    LET found == get(self.strategies, id) IN
    IF found = None
      THEN {Outcome(self, Ret(NotFoundFmt, <<id>>, <<>>))}
    ELSE LET existing_strategy == found[1] IN
    IF ~DeleteOwnershipOk(existing_strategy, caller)
      THEN {Outcome(self, Ret(DeleteForbiddenFmt, <<>>, <<>>))}
    ELSE {IF a.panic
            THEN Outcome(self, Panicked)
            ELSE Outcome(Self(remove(self.strategies, id), a.value),
                         Ret(DeletedFmt, <<id>>, <<a.value>>)) :
          a \in sub_assign_1(self.strategy_count)}

\* mutant: the filter is dropped
get_strategies_by_creator_Unfiltered(self, creator) == values(self.strategies)

get_strategies_by_creator(self, creator) ==
    {SelectSeq(vs, LAMBDA strategy : strategy.creator = creator) :
     vs \in values(self.strategies)}

get_all_strategies(self) == values(self.strategies)

(***************************************************************************)
(* The state machine.                                                      *)
(***************************************************************************)
Call(op, caller, id, goal, json, timestamp, ret, records, number) ==
    [op |-> op, caller |-> caller, id |-> id, goal |-> goal, json |-> json,
     timestamp |-> timestamp, ret |-> ret, records |-> records, number |-> number]

CurrentSelf == Self(strategies, strategy_count)

\* #[derive(Default)] (lib.rs 52-57): an empty mapping and a count of zero
Init ==
    /\ strategies = EmptyMap
    /\ strategy_count = 0
    /\ now = 0
    /\ last = Call("new", NoCaller, "", "", NoJson, 0, NoRet, <<>>, 0)
    /\ pre = Self(EmptyMap, 0)

\* a call-changing method: the host runs it at a block time t >= now and
\* commits the contract state it leaves
Commit(o, t, call) ==
    /\ strategies' = o.self.strategies
    /\ strategy_count' = o.self.strategy_count
    /\ now' = t
    /\ last' = call
    /\ pre' = CurrentSelf

\* a view method: nothing is written
View(call) ==
    /\ last' = call
    /\ pre' = CurrentSelf
    /\ UNCHANGED <<strategies, strategy_count, now>>

StoreCompleteStrategy(caller, strategy_json, t) ==
    /\ strategy_count < MaxCount
    /\ \E o \in store_complete_strategy(CurrentSelf, caller, t, strategy_json) :
         Commit(o, t, Call("store_complete_strategy", caller, "", "", strategy_json,
                           t, o.ret, <<>>, 0))

StoreStrategy(caller, id, goal, t) ==
    /\ strategy_count < MaxCount
    /\ \E o \in store_strategy(CurrentSelf, caller, t, id, goal) :
         Commit(o, t, Call("store_strategy", caller, id, goal, NoJson, t, o.ret,
                           <<>>, 0))

UpdateStrategy(caller, strategy_json, t) ==
    \E o \in update_strategy(CurrentSelf, caller, strategy_json) :
       Commit(o, t, Call("update_strategy", caller, "", "", strategy_json, t,
                         o.ret, <<>>, 0))

DeleteStrategy(caller, id, t) ==
    \E o \in delete_strategy(CurrentSelf, caller, id) :
       Commit(o, t, Call("delete_strategy", caller, id, "", NoJson, t, o.ret,
                         <<>>, 0))

GetStrategy(id) ==
    View(Call("get_strategy", NoCaller, id, "", NoJson, now, NoRet,
              get_strategy(CurrentSelf, id), 0))

TotalStrategies ==
    View(Call("total_strategies", NoCaller, "", "", NoJson, now, NoRet, <<>>,
              total_strategies(CurrentSelf)))

GetContractInfo ==
    View(Call("get_contract_info", NoCaller, "", "", NoJson, now,
              get_contract_info(CurrentSelf), <<>>, 0))

GetStrategiesByCreator(creator) ==
    \E rs \in get_strategies_by_creator(CurrentSelf, creator) :
       View(Call("get_strategies_by_creator", NoCaller, creator, "", NoJson, now,
                 NoRet, rs, 0))

GetAllStrategies ==
    \E rs \in get_all_strategies(CurrentSelf) :
       View(Call("get_all_strategies", NoCaller, "", "", NoJson, now, NoRet, rs, 0))

Next ==
    \/ \E caller \in Accounts, j \in JsonInputs, t \in LaterTimes(now) :
          StoreCompleteStrategy(caller, j, t)
    \/ \E caller \in Accounts, id \in Ids, goal \in Goals, t \in LaterTimes(now) :
          StoreStrategy(caller, id, goal, t)
    \/ \E caller \in Accounts, j \in JsonInputs, t \in LaterTimes(now) :
          UpdateStrategy(caller, j, t)
    \/ \E caller \in Accounts, id \in Ids, t \in LaterTimes(now) :
          DeleteStrategy(caller, id, t)
    \/ \E id \in Ids : GetStrategy(id)
    \/ TotalStrategies
    \/ GetContractInfo
    \/ \E creator \in Accounts : GetStrategiesByCreator(creator)
    \/ GetAllStrategies

Spec == Init /\ [][Next]_vars

(***************************************************************************)
(* Vocabulary of the properties.  `pre` is the contract state the last     *)
(* call started from, `last` that call, and the current state is the state *)
(* it left.                                                                *)
(***************************************************************************)
CreateOps == {"store_strategy", "store_complete_strategy"}
JsonOps == {"store_complete_strategy", "update_strategy"}

\* the id a call names: None when its JSON payload does not parse
NamedId(call) ==
    IF call.op \in JsonOps
      THEN (IF from_str(call.json).ok THEN Some(from_str(call.json).data[1].id)
            ELSE None)
      ELSE Some(call.id)

Names(call, id) == NamedId(call) = Some(id)

Size(map) == Cardinality(DOMAIN map)

StateUnchanged ==
    /\ strategies = pre.strategies
    /\ strategy_count = pre.strategy_count

\* the last call was op, naming an id that was stored when the call began
OnExisting(op) ==
    /\ last.op = op
    /\ NamedId(last) # None
    /\ NamedId(last)[1] \in DOMAIN pre.strategies

Target == NamedId(last)[1]

ByCreator == pre.strategies[Target].creator = last.caller

OthersUnchanged ==
    \A k \in (DOMAIN pre.strategies) \ {Target} :
        k \in DOMAIN strategies /\ strategies[k] = pre.strategies[k]

(***************************************************************************)
(* C1.  strategy_count equals the number of entries of the mapping, which  *)
(* is the length of get_all_strategies(), in every reachable state.        *)
(* The code increments the count on every create, also when the id is      *)
(* already stored, so this fails.                                          *)
(***************************************************************************)
C1_CountEqualsSize ==
    /\ total_strategies(CurrentSelf) = Size(strategies)
    /\ \A all \in get_all_strategies(CurrentSelf) :
          Len(all) = total_strategies(CurrentSelf)

(***************************************************************************)
(* C2.  creator and created_at are write-once: a record that is stored     *)
(* before and after a call has the same creator and created_at before and  *)
(* after it.  A create on a stored id replaces both, so this fails.        *)
(***************************************************************************)
C2_WriteOnce ==
    \A id \in (DOMAIN pre.strategies) \cap (DOMAIN strategies) :
        /\ strategies[id].creator = pre.strategies[id].creator
        /\ strategies[id].created_at = pre.strategies[id].created_at

(***************************************************************************)
(* C3.  Only its creator modifies or removes a record: if a call leaves    *)
(* the record under some id changed or removed, the caller is the creator  *)
(* of the record as it was.  A create on an id stored by someone else      *)
(* replaces the record, so this fails.                                     *)
(***************************************************************************)
C3_OnlyCreatorAlters ==
    \A id \in DOMAIN pre.strategies :
        (id \notin DOMAIN strategies \/ strategies[id] # pre.strategies[id])
            => last.caller = pre.strategies[id].creator

(***************************************************************************)
(* C4.  update_strategy with a well-formed payload naming a stored id, by  *)
(* a caller who is not the record's creator, returns the Forbidden error   *)
(* and leaves every record and strategy_count unchanged.                   *)
(***************************************************************************)
C4_UpdateByOtherForbidden ==
    (OnExisting("update_strategy") /\ ~ByCreator)
        => /\ last.ret = Ret(UpdateForbiddenFmt, <<>>, <<>>)
           /\ strategies[Target] = pre.strategies[Target]
           /\ OthersUnchanged
           /\ DOMAIN strategies = DOMAIN pre.strategies
           /\ strategy_count = pre.strategy_count

\* a non-creator's update whose payload differs from the stored record,
\* with another record in the catalog
C4_Witness ==
    /\ OnExisting("update_strategy") /\ ~ByCreator
    /\ from_str(last.json).data[1].goal # pre.strategies[Target].goal
    /\ Size(pre.strategies) = 2

(***************************************************************************)
(* C5.  update_strategy by the record's creator on a stored id succeeds    *)
(* and the stored record keeps its creator and created_at, whatever the    *)
(* payload carries for them and whatever the block time is.                *)
(***************************************************************************)
C5_UpdateKeepsMetadata ==
    (OnExisting("update_strategy") /\ ByCreator)
        => /\ last.ret = Ret(UpdatedFmt, <<Target>>, <<>>)
           /\ Target \in DOMAIN strategies
           /\ strategies[Target].creator = pre.strategies[Target].creator
           /\ strategies[Target].created_at = pre.strategies[Target].created_at

\* the payload carries another creator and another created_at, and the
\* update runs later than the creation
C5_Witness ==
    /\ OnExisting("update_strategy") /\ ByCreator
    /\ last.json.creator[1] # pre.strategies[Target].creator
    /\ last.json.created_at[1] # pre.strategies[Target].created_at
    /\ last.timestamp # pre.strategies[Target].created_at
    /\ strategies[Target] # pre.strategies[Target]

(***************************************************************************)
(* C6.  delete_strategy on a stored id by a caller who is not the record's *)
(* creator returns the Forbidden error; get_strategy(id) still returns the *)
(* same record and strategy_count is unchanged.                            *)
(***************************************************************************)
C6_DeleteByOtherForbidden ==
    (OnExisting("delete_strategy") /\ ~ByCreator)
        => /\ last.ret = Ret(DeleteForbiddenFmt, <<>>, <<>>)
           /\ get_strategy(CurrentSelf, Target) = Some(pre.strategies[Target])
           /\ strategy_count = pre.strategy_count

C6_Witness ==
    /\ OnExisting("delete_strategy") /\ ~ByCreator
    /\ last.ret.fmt = DeleteForbiddenFmt

(***************************************************************************)
(* C7.  delete_strategy on a stored id by the record's creator succeeds:   *)
(* get_strategy(id) returns None, strategy_count is one less, every other  *)
(* record is unchanged; and an id that is absent becomes present only by   *)
(* a create call naming it.                                                *)
(***************************************************************************)
C7_DeleteByCreator ==
    /\ (OnExisting("delete_strategy") /\ ByCreator)
          => /\ last.ret.fmt = DeletedFmt
             /\ get_strategy(CurrentSelf, Target) = None
             /\ strategy_count + 1 = pre.strategy_count
             /\ OthersUnchanged
             /\ DOMAIN strategies = (DOMAIN pre.strategies) \ {Target}
    /\ \A id \in (DOMAIN strategies) \ (DOMAIN pre.strategies) :
          last.op \in CreateOps /\ Names(last, id)

\* the creator deletes one of two stored records
C7_Witness ==
    /\ OnExisting("delete_strategy") /\ ByCreator
    /\ Size(pre.strategies) = 2
    /\ Size(strategies) = 1

(***************************************************************************)
(* C8.  A call that returns an error (parse error, empty id, not found,    *)
(* not the creator) leaves the mapping and strategy_count as they were.    *)
(***************************************************************************)
C8_ErrorLeavesState ==
    last.ret.fmt \in ErrorFmts => StateUnchanged

\* an update refused as Forbidden on a catalog holding two records
C8_Witness ==
    /\ last.ret.fmt = UpdateForbiddenFmt
    /\ Size(strategies) = 2

(***************************************************************************)
(* C9.  Whenever a successful delete_strategy leaves the mapping empty,    *)
(* strategy_count is zero.  The count has drifted above the size whenever  *)
(* a create reused an id, so this fails.                                   *)
(***************************************************************************)
C9_LastDeleteLeavesZero ==
    (last.op = "delete_strategy" /\ last.ret.fmt = DeletedFmt
        /\ strategies = EmptyMap)
        => strategy_count = 0

(***************************************************************************)
(* C10.  strategy_count never underflows: whenever delete_strategy reaches *)
(* its decrement (the id is stored and the caller is the creator), the     *)
(* count was at least 1, the subtraction neither trapped nor wrapped.      *)
(***************************************************************************)
C10_NoUnderflow ==
    (OnExisting("delete_strategy") /\ ByCreator)
        => /\ pre.strategy_count >= 1
           /\ last.ret # Panicked
           /\ strategy_count < pre.strategy_count

\* the decrement from a count of exactly 1
C10_Witness ==
    /\ OnExisting("delete_strategy") /\ ByCreator
    /\ pre.strategy_count = 1
    /\ last.ret = Ret(DeletedFmt, <<Target>>, <<0>>)

\* a create call that returned its success message
CreateSucceeded ==
    /\ last.op \in CreateOps
    /\ last.ret.fmt \in {StoredFmt, CompleteStoredFmt}

(***************************************************************************)
(* C11.  No record with an empty id is ever in the catalog, whatever ids   *)
(* callers supply.  store_strategy inserts under any id without testing    *)
(* it, the empty string included, so this fails.                           *)
(***************************************************************************)
C11_NoEmptyId ==
    \A k \in DOMAIN strategies : ~is_empty(k) /\ ~is_empty(strategies[k].id)

(***************************************************************************)
(* C12.  get_strategies_by_creator(X) returns exactly the records of the   *)
(* catalog whose creator is X, each once, and the empty sequence when X    *)
(* owns none.                                                              *)
(***************************************************************************)
OwnedIds(X) == {k \in DOMAIN strategies : strategies[k].creator = X}

C12_ByCreatorExact ==
    last.op = "get_strategies_by_creator"
        => /\ {last.records[i] : i \in DOMAIN last.records}
                = {strategies[k] : k \in OwnedIds(last.id)}
           /\ \A all \in get_all_strategies(CurrentSelf) :
                 {last.records[i] : i \in DOMAIN last.records}
                    = {all[i] : i \in {j \in DOMAIN all : all[j].creator = last.id}}
           /\ Len(last.records) = Cardinality(OwnedIds(last.id))
           /\ (OwnedIds(last.id) = {} => last.records = <<>>)

\* the scan returns one of two stored records
C12_Witness ==
    /\ last.op = "get_strategies_by_creator"
    /\ Len(last.records) = 1
    /\ Size(strategies) = 2

(***************************************************************************)
(* C13.  store_strategy(id, goal) by caller C followed by get_strategy(id) *)
(* returns a record with that id and goal, risk_level "medium", empty      *)
(* chains, protocols and steps, every optional field unset, creator C.     *)
(***************************************************************************)
C13_StoreThenGet ==
    (last.op = "store_strategy")
        => /\ last.ret = Ret(StoredFmt, <<last.id>>, <<>>)
           /\ get_strategy(CurrentSelf, last.id) # None
           /\ LET r == get_strategy(CurrentSelf, last.id)[1] IN
                /\ r.id = last.id
                /\ r.goal = last.goal
                /\ r.risk_level = "medium"
                /\ r.chains = <<>> /\ r.protocols = <<>> /\ r.steps = <<>>
                /\ r.estimated_apy = None /\ r.estimated_tvl = None
                /\ r.confidence = None /\ r.reasoning = None
                /\ r.warnings = None
                /\ r.creator = last.caller

\* the minimal create lands on an id that held a complete record
C13_Witness ==
    /\ last.op = "store_strategy"
    /\ last.id \in DOMAIN pre.strategies
    /\ pre.strategies[last.id].steps # <<>>
    /\ pre.strategies[last.id].creator # last.caller

\* record r holds, in every field but creator and created_at, what the JSON
\* object json carries; a member the object omits is None in r
HoldsPayload(r, json) ==
    /\ r.id = json.id[1]
    /\ r.goal = json.goal[1]
    /\ r.chains = json.chains[1]
    /\ r.protocols = json.protocols[1]
    /\ r.steps = json.steps[1]
    /\ r.risk_level = json.risk_level[1]
    /\ r.estimated_apy = json.estimated_apy
    /\ r.estimated_tvl = json.estimated_tvl
    /\ r.confidence = json.confidence
    /\ r.reasoning = json.reasoning
    /\ r.warnings = json.warnings

(***************************************************************************)
(* C14.  After a successful store_complete_strategy by caller C at time T  *)
(* the record under the payload's id has creator C and created_at T,       *)
(* whatever the payload supplied for them, and every other field equals    *)
(* the payload's.                                                          *)
(***************************************************************************)
C14_CompleteStoreMetadata ==
    (last.op = "store_complete_strategy" /\ last.ret.fmt = CompleteStoredFmt)
        => /\ last.json.id # <<>>
           /\ last.json.id[1] \in DOMAIN strategies
           /\ LET r == strategies[last.json.id[1]] IN
                /\ r.creator = last.caller
                /\ r.created_at = last.timestamp
                /\ HoldsPayload(r, last.json)

\* the payload names another creator and another created_at
C14_Witness ==
    /\ last.op = "store_complete_strategy" /\ last.ret.fmt = CompleteStoredFmt
    /\ last.json.creator[1] # last.caller
    /\ last.json.created_at[1] # last.timestamp
    /\ last.json.steps[1] # <<>>

(***************************************************************************)
(* C15.  A successful update_strategy replaces the record wholesale and    *)
(* changes nothing else: every field but creator and created_at equals the *)
(* payload's (an omitted field is cleared, not merged), strategy_count,    *)
(* the set of ids and every other record are unchanged.                    *)
(***************************************************************************)
C15_UpdateWholesale ==
    (last.op = "update_strategy" /\ last.ret.fmt = UpdatedFmt)
        => /\ last.json.id # <<>>
           /\ last.json.id[1] \in DOMAIN strategies
           /\ HoldsPayload(strategies[last.json.id[1]], last.json)
           /\ strategy_count = pre.strategy_count
           /\ DOMAIN strategies = DOMAIN pre.strategies
           /\ OthersUnchanged

\* a payload without optional members replaces a record that had them,
\* beside another record
C15_Witness ==
    /\ last.op = "update_strategy" /\ last.ret.fmt = UpdatedFmt
    /\ last.json.warnings = <<>>
    /\ pre.strategies[Target].warnings # None
    /\ strategies[Target].warnings = None
    /\ Size(strategies) = 2

(***************************************************************************)
(* C16.  One record per id: every entry of the mapping is stored under the *)
(* id its record holds, so no two records of get_all_strategies() share an *)
(* id and get_strategy(id) returns nothing or a record with that id.       *)
(***************************************************************************)
C16_KeyIsId ==
    /\ \A k \in DOMAIN strategies : strategies[k].id = k
    /\ \A all \in get_all_strategies(CurrentSelf) :
          \A i, j \in DOMAIN all : all[i].id = all[j].id => i = j
    /\ \A id \in Ids :
          get_strategy(CurrentSelf, id) # None
             => get_strategy(CurrentSelf, id)[1].id = id
    /\ (last.op = "get_strategy" /\ last.records # <<>>)
          => last.records[1].id = last.id

\* get_strategy finds one of two stored records
C16_Witness ==
    /\ last.op = "get_strategy"
    /\ last.records # <<>>
    /\ Size(strategies) = 2

(***************************************************************************)
(* C17.  Create is an unchecked upsert: store_strategy with any id, and    *)
(* store_complete_strategy with a well-formed payload and a non-empty id,  *)
(* succeed whether or not the id is stored and whoever owns it; the record *)
(* under the id is then the new one, with creator the caller and           *)
(* created_at the block time.                                              *)
(***************************************************************************)
C17_CreateIsUpsert ==
    (\/ last.op = "store_strategy"
     \/ /\ last.op = "store_complete_strategy"
        /\ from_str(last.json).ok
        /\ ~is_empty(last.json.id[1]))
        => /\ CreateSucceeded
           /\ Target \in DOMAIN strategies
           /\ strategies[Target].creator = last.caller
           /\ strategies[Target].created_at = last.timestamp
           /\ strategies[Target].goal
                 = (IF last.op = "store_strategy" THEN last.goal ELSE last.json.goal[1])
           /\ DOMAIN strategies = (DOMAIN pre.strategies) \cup {Target}
           /\ OthersUnchanged

\* a create replaces a record stored earlier by another account
C17_Witness ==
    /\ CreateSucceeded
    /\ Target \in DOMAIN pre.strategies
    /\ pre.strategies[Target].creator # last.caller
    /\ pre.strategies[Target].created_at # last.timestamp
    /\ strategies[Target].creator = last.caller

(***************************************************************************)
(* C18.  Error precedence: update_strategy and delete_strategy naming an   *)
(* id that is not stored return NotFound for every caller; Forbidden is    *)
(* returned only when the id is stored and the caller is not its creator;  *)
(* update_strategy with a malformed payload returns the parse error.       *)
(***************************************************************************)
C18_ErrorPrecedence ==
    /\ (last.op \in {"update_strategy", "delete_strategy"}
          /\ NamedId(last) # None /\ Target \notin DOMAIN pre.strategies)
          => last.ret = Ret(NotFoundFmt, <<Target>>, <<>>)
    /\ (last.ret.fmt \in {UpdateForbiddenFmt, DeleteForbiddenFmt})
          => /\ last.op = (IF last.ret.fmt = UpdateForbiddenFmt
                            THEN "update_strategy" ELSE "delete_strategy")
             /\ NamedId(last) # None
             /\ Target \in DOMAIN pre.strategies
             /\ pre.strategies[Target].creator # last.caller
    /\ (last.op = "update_strategy" /\ ~last.json.syntax_ok)
          => last.ret.fmt = ParseErrorFmt
    /\ (last.op = "update_strategy" /\ NamedId(last) = None)
          => last.ret = Ret(ParseErrorFmt, <<from_str(last.json).err>>, <<>>)

\* NotFound for an id that is absent while the caller owns nothing and
\* another account's record is stored
C18_Witness ==
    /\ last.op \in {"update_strategy", "delete_strategy"}
    /\ last.ret.fmt = NotFoundFmt
    /\ strategies # EmptyMap
    /\ \A k \in DOMAIN strategies : strategies[k].creator # last.caller

(***************************************************************************)
(* C19.  Drift law of the counter: strategy_count is at least the number   *)
(* of entries, and strategy_count minus that number never decreases: it    *)
(* grows by exactly 1 on a successful create whose id was already stored   *)
(* and is unchanged by every other call.                                   *)
(***************************************************************************)
Drift(self) == self.strategy_count - Size(self.strategies)

C19_DriftLaw ==
    /\ strategy_count >= Size(strategies)
    /\ Drift(CurrentSelf) >= Drift(pre)
    /\ IF CreateSucceeded /\ Target \in DOMAIN pre.strategies
         THEN Drift(CurrentSelf) = Drift(pre) + 1
         ELSE Drift(CurrentSelf) = Drift(pre)

\* a create on a stored id moves the drift from 0 to 1
C19_Witness ==
    /\ CreateSucceeded
    /\ Target \in DOMAIN pre.strategies
    /\ Drift(pre) = 0
    /\ Drift(CurrentSelf) = 1

====
